---- MODULE Spec2Model ----
(***************************************************************************)
(* Model of packages/astro-image-service-ng/src/service/index.ts: the      *)
(* image service's validateOptions, getURL, parseURL, getHTMLAttributes,   *)
(* getSrcSet and transform, run as the pipeline of one image request.      *)
(*                                                                         *)
(* Representation of JavaScript values                                     *)
(*  - a string is a sequence of one-character strings;                     *)
(*  - a number is kept in fixed point, in halves: the integer n stands for *)
(*    the number n/2, so 3 is 1.5 and 20 is 10;                            *)
(*  - an object is a function from property names to values, and a         *)
(*    property that is undefined is absent from its DOMAIN;                *)
(*  - values whose type varies (src, quality) carry their typeof in t.     *)
(***************************************************************************)
EXTENDS Integers, Sequences, FiniteSets, TLC

VARIABLES
    config,      \* config.service.config handed to every operation
    options,     \* the Transform object of the request (shared by reference)
    given,       \* the Transform object as the caller built it
    image,       \* format of the image file that src designates
    info,        \* what imageInformation() returns for that file
    pc,          \* position of the request in the pipeline
    validated,   \* outcome of validateOptions
    url,         \* result of getURL: the query string after "?"
    parsed,      \* result of parseURL
    attributes,  \* result of getHTMLAttributes
    srcSet,      \* result of getSrcSet
    output       \* what transform handed to the external libraries

vars == <<config, options, given, image, info, pc, validated, url, parsed,
          attributes, srcSet, output>>

----------------------------------------------------------------------------
(* Bounds of the model *)

\* largest intrinsic or requested dimension, in pixels
MaxDim == 4

\* longest src string of the strings enumerated in full
MaxLen == 4

\* longest densities list
MaxDensities == 3

----------------------------------------------------------------------------
(* JavaScript values *)

Has(o, k) == k \in DOMAIN o

\* o with property k set to v
Set(o, k, v) == (k :> v) @@ o

\* o without the properties in ks (object rest destructuring)
Omit(o, ks) == [k \in DOMAIN o \ ks |-> o[k]]

\* the number i
Num(i) == 2 * i

IsInteger(x) == x % 2 = 0

\* truthiness of a number-valued property: undefined and 0 are falsy
TruthyNum(o, k) == Has(o, k) /\ o[k] # 0

\* truthiness of a string-valued property: undefined and '' are falsy
TruthyStr(o, k) == Has(o, k) /\ o[k] # <<>>

\* Math.round on a number: halves round up
MathRound(x) == 2 * ((x + 1) \div 2)

\* exact quotients of numbers, n/d: the value of a division or a product
\* before it is rounded
Ratio(x) == [n |-> x, d |-> 2]
RatMul(a, b) == [n |-> a.n * b.n, d |-> a.d * b.d]
RatDiv(a, b) == [n |-> a.n * b.d, d |-> a.d * b.n]

\* Math.round on a positive quotient, as a number
RatRound(r) == Num((2 * r.n + r.d) \div (2 * r.d))

MathMin(a, b) == IF a <= b THEN a ELSE b

----------------------------------------------------------------------------
(* Strings *)

DigitChars == <<"0", "1", "2", "3", "4", "5", "6", "7", "8", "9">>

IsDigit(c) == \E i \in 1..10 : DigitChars[i] = c

DigitVal(c) == (CHOOSE i \in 1..10 : DigitChars[i] = c) - 1

RECURSIVE Digits(_)
Digits(i) ==
    IF i < 10 THEN <<DigitChars[i + 1]>>
    ELSE Digits(i \div 10) \o <<DigitChars[(i % 10) + 1]>>

\* `${x}` of a non-negative number
NumToString(x) ==
    IF IsInteger(x) THEN Digits(x \div 2) ELSE Digits(x \div 2) \o <<".", "5">>

\* length of the longest prefix of digits of s
RECURSIVE DigitPrefix(_)
DigitPrefix(s) ==
    IF s = <<>> \/ ~IsDigit(Head(s)) THEN 0 ELSE 1 + DigitPrefix(Tail(s))

RECURSIVE DigitsValue(_)
DigitsValue(s) ==
    IF s = <<>> THEN 0
    ELSE 10 * DigitsValue(SubSeq(s, 1, Len(s) - 1)) + DigitVal(s[Len(s)])

NaN == "NaN"

\* Number.parseInt(s, 10) of an unsigned string
ParseInt(s) ==
    LET k == DigitPrefix(s)
    IN  IF k = 0 THEN NaN ELSE Num(DigitsValue(SubSeq(s, 1, k)))

\* Number.parseFloat(s) of an unsigned decimal string whose value is a
\* multiple of one half
ParseFloat(s) ==
    LET k == DigitPrefix(s)
        rest == SubSeq(s, k + 1, Len(s))
        half == Len(rest) >= 2 /\ rest[1] = "." /\ rest[2] = "5"
    IN  IF k = 0 THEN NaN
        ELSE Num(DigitsValue(SubSeq(s, 1, k))) + (IF half THEN 1 ELSE 0)

StartsWith(s, p) == Len(s) >= Len(p) /\ SubSeq(s, 1, Len(p)) = p

Letters ==
    {"a", "b", "c", "d", "e", "f", "g", "h", "i", "j", "k", "l", "m", "n",
     "o", "p", "q", "r", "s", "t", "u", "v", "w", "x", "y", "z"}

Capitals ==
    {"A", "B", "C", "D", "E", "F", "G", "H", "I", "J", "K", "L", "M", "N",
     "O", "P", "Q", "R", "S", "T", "U", "V", "W", "X", "Y", "Z"}

\* the regular expression class \w
IsWord(c) == c \in Letters \/ c \in Capitals \/ IsDigit(c) \/ c = "_"

\* names of formats and qualities
svg == <<"s", "v", "g">>
png == <<"p", "n", "g">>
jpg == <<"j", "p", "g">>
jpeg == <<"j", "p", "e", "g">>
avif == <<"a", "v", "i", "f">>
webp == <<"w", "e", "b", "p">>

----------------------------------------------------------------------------
(* isImageMetadata *)

isImageMetadata(src) ==
    /\ src.t = "object"
    /\ {"src", "width", "height", "format"} \subseteq DOMAIN src.o

\* !src
SrcFalsy(o) ==
    \/ ~Has(o, "src")
    \/ o.src.t = "string" /\ o.src.s = <<>>
    \/ o.src.t = "number" /\ o.src.n = 0

----------------------------------------------------------------------------
(* validateOptions *)

\* /^(?:\w+:)?\/\//
isAbsoluteURL(s) ==
    \/ StartsWith(s, <<"/", "/">>)
    \/ \E k \in 1..Len(s) :
          /\ \A i \in 1..k : IsWord(s[i])
          /\ StartsWith(SubSeq(s, k + 1, Len(s)), <<":", "/", "/">>)

\* isPublicAsset without the lookahead: every "/..." is a public asset
isPublicAssetWithoutLookahead(s) == StartsWith(s, <<"/">>)

\* /^\/(?![@/])/
isPublicAsset(s) ==
    /\ StartsWith(s, <<"/">>)
    /\ ~(Len(s) >= 2 /\ s[2] \in {"@", "/"})

\* src.startsWith(`/${assets}/`)
isBundledAsset(s, assets) == StartsWith(s, <<"/">> \o assets \o <<"/">>)

\* the arguments of the URL that the image is probed at
ProbeURL(s, c) ==
    IF isAbsoluteURL(s)
    THEN IF StartsWith(s, <<"/", "/">>)
         THEN [href |-> <<"h", "t", "t", "p", "s", ":", "/", "/">> \o s,
               base |-> "none"]
         ELSE [href |-> s, base |-> "none"]
    ELSE IF isBundledAsset(s, c.assets)
         THEN [href |-> s, base |-> c.outDir]
         ELSE [href |-> s, base |-> c.publicDir]

Threw(e, o, p) == [threw |-> TRUE, error |-> e, options |-> o, probed |-> p]

Returned(o, p) == [threw |-> FALSE, error |-> "", options |-> o, probed |-> p]

\* ValidateSrc inferring only the dimension that is missing
ValidateSrcKeepingGiven(o, c, inf) ==
    IF o.src.t = "string" THEN
        LET s == o.src.s IN
        IF ~isAbsoluteURL(s) /\ ~isBundledAsset(s, c.assets) /\ ~isPublicAsset(s)
        THEN Threw("Local image not correctly imported", o, <<>>)
        ELSE IF ~TruthyNum(o, "width") \/ ~TruthyNum(o, "height")
        THEN IF inf.found
             THEN Returned(
                    Set(Set(o, "width",
                            IF TruthyNum(o, "width") THEN o.width ELSE inf.width),
                        "height",
                        IF TruthyNum(o, "height") THEN o.height ELSE inf.height),
                    <<ProbeURL(s, c)>>)
             ELSE Threw("width and height must be specified", o,
                        <<ProbeURL(s, c)>>)
        ELSE Returned(o, <<>>)
    ELSE IF isImageMetadata(o.src) THEN
        IF o.src.o.format = svg /\ ~Has(o, "format")
        THEN Returned(Set(o, "format", svg), <<>>)
        ELSE IF o.src.o.format # svg /\ Has(o, "format") /\ o.format = svg
        THEN Threw("Cannot transform to svg", o, <<>>)
        ELSE Returned(o, <<>>)
    ELSE Threw("Expected src to be of type string | ImageMetadata", o, <<>>)

\* lines 37-85: the checks and the inference that depend on the kind of src
ValidateSrc(o, c, inf) ==
    IF o.src.t = "string" THEN
        LET s == o.src.s IN
        IF ~isAbsoluteURL(s) /\ ~isBundledAsset(s, c.assets) /\ ~isPublicAsset(s)
        THEN Threw("Local image not correctly imported", o, <<>>)
        ELSE IF ~TruthyNum(o, "width") \/ ~TruthyNum(o, "height")
        THEN IF inf.found
             THEN Returned(Set(Set(o, "width", inf.width), "height", inf.height),
                           <<ProbeURL(s, c)>>)
             ELSE Threw("width and height must be specified", o,
                        <<ProbeURL(s, c)>>)
        ELSE Returned(o, <<>>)
    ELSE IF isImageMetadata(o.src) THEN
        IF o.src.o.format = svg /\ ~Has(o, "format")
        THEN Returned(Set(o, "format", svg), <<>>)
        ELSE IF o.src.o.format # svg /\ Has(o, "format") /\ o.format = svg
        THEN Threw("Cannot transform to svg", o, <<>>)
        ELSE Returned(o, <<>>)
    ELSE Threw("Expected src to be of type string | ImageMetadata", o, <<>>)

\* lines 91-97
RoundDimension(o, k) == IF TruthyNum(o, k) THEN Set(o, k, MathRound(o[k])) ELSE o

\* lines 99-104
NormalizeFormat(o, c) ==
    IF ~TruthyStr(o, "format")
    THEN Set(o, "format", IF Has(c, "defaultFormat") THEN c.defaultFormat ELSE avif)
    ELSE IF o.format = jpg THEN Set(o, "format", jpeg)
    ELSE o

\* validateOptions(options, config), with inf the answer of imageInformation:
\* whether it threw, and the options object as the call left it
validateOptions(o, c, inf) ==
    IF ~TruthyStr(c, "publicDir") \/ ~TruthyStr(c, "assets") \/ ~TruthyStr(c, "outDir")
    THEN Threw("This image service cannot be used directly", o, <<>>)
    ELSE IF SrcFalsy(o)
    THEN Threw("src is missing", o, <<>>)
    ELSE LET r == ValidateSrc(o, c, inf) IN
         IF r.threw THEN r
         ELSE IF Has(r.options, "densities") /\ Has(r.options, "widths")
         THEN Threw("densities and widths cannot be used together",
                    r.options, r.probed)
         ELSE Returned(
                NormalizeFormat(
                    RoundDimension(RoundDimension(r.options, "width"), "height"), c),
                r.probed)

----------------------------------------------------------------------------
(* URLSearchParams: the application/x-www-form-urlencoded serializer and   *)
(* parser                                                                  *)

\* characters the serializer leaves as they are
Unreserved(c) ==
    c \in Letters \/ c \in Capitals \/ IsDigit(c) \/ c \in {"*", "-", ".", "_"}

\* the two hexadecimal digits of the characters of the model that are escaped
PercentCodes ==
    [c \in {"/", ":", "@", "&", "=", "+", "%", "?", "#"} |->
        CASE c = "/" -> <<"2", "F">>
          [] c = ":" -> <<"3", "A">>
          [] c = "@" -> <<"4", "0">>
          [] c = "&" -> <<"2", "6">>
          [] c = "=" -> <<"3", "D">>
          [] c = "+" -> <<"2", "B">>
          [] c = "%" -> <<"2", "5">>
          [] c = "?" -> <<"3", "F">>
          [] c = "#" -> <<"2", "3">>]

\* EncodeChar without the escapes: the value is appended to the query as it is
EncodeCharUnescaped(c) == IF c = " " THEN <<"+">> ELSE <<c>>

EncodeChar(c) ==
    IF Unreserved(c) THEN <<c>>
    ELSE IF c = " " THEN <<"+">>
    ELSE <<"%">> \o PercentCodes[c]

RECURSIVE FormEncode(_)
FormEncode(s) ==
    IF s = <<>> THEN <<>> ELSE EncodeChar(Head(s)) \o FormEncode(Tail(s))

\* URLSearchParams.toString() of a list of [name, value] pairs
RECURSIVE Serialize(_)
Serialize(pairs) ==
    IF pairs = <<>> THEN <<>>
    ELSE LET p == Head(pairs)
             one == FormEncode(p.name) \o <<"=">> \o FormEncode(p.value)
         IN  IF Len(pairs) = 1 THEN one
             ELSE one \o <<"&">> \o Serialize(Tail(pairs))

\* position of the first c in s, 0 when there is none
IndexOf(s, c) ==
    IF \E i \in 1..Len(s) : s[i] = c
    THEN CHOOSE i \in 1..Len(s) : s[i] = c /\ \A j \in 1..(i - 1) : s[j] # c
    ELSE 0

RECURSIVE Split(_, _)
Split(s, c) ==
    LET i == IndexOf(s, c)
    IN  IF i = 0 THEN <<s>>
        ELSE <<SubSeq(s, 1, i - 1)>> \o Split(SubSeq(s, i + 1, Len(s)), c)

IsHex(c) == IsDigit(c) \/ c \in {"A", "B", "C", "D", "E", "F"}

\* the character of an escape; escapes of characters outside the model all
\* decode to "other"
Unhex(a, b) ==
    IF \E c \in DOMAIN PercentCodes : PercentCodes[c] = <<a, b>>
    THEN CHOOSE c \in DOMAIN PercentCodes : PercentCodes[c] = <<a, b>>
    ELSE "other"

RECURSIVE PercentDecode(_)
PercentDecode(s) ==
    IF s = <<>> THEN <<>>
    ELSE IF Head(s) = "%" /\ Len(s) >= 3 /\ IsHex(s[2]) /\ IsHex(s[3])
    THEN <<Unhex(s[2], s[3])>> \o PercentDecode(SubSeq(s, 4, Len(s)))
    ELSE <<Head(s)>> \o PercentDecode(Tail(s))

PlusToSpace(s) == [i \in 1..Len(s) |-> IF s[i] = "+" THEN " " ELSE s[i]]

FormDecode(s) == PercentDecode(PlusToSpace(s))

\* the [name, value] pair of one "name=value" piece of a query string
ParsePair(piece) ==
    LET i == IndexOf(piece, "=")
    IN  IF i = 0 THEN [name |-> FormDecode(piece), value |-> <<>>]
        ELSE [name |-> FormDecode(SubSeq(piece, 1, i - 1)),
              value |-> FormDecode(SubSeq(piece, i + 1, Len(piece)))]

RECURSIVE ParsePieces(_)
ParsePieces(pieces) ==
    IF pieces = <<>> THEN <<>>
    ELSE IF Head(pieces) = <<>> THEN ParsePieces(Tail(pieces))
    ELSE <<ParsePair(Head(pieces))>> \o ParsePieces(Tail(pieces))

\* new URL(...).searchParams of a query string
ParseQuery(q) == ParsePieces(Split(q, "&"))

\* query.get(name) !== null
QueryHas(query, name) == \E i \in 1..Len(query) : query[i].name = name

\* query.get(name), the value of the first pair of that name
QueryGet(query, name) ==
    query[CHOOSE i \in 1..Len(query) :
            query[i].name = name /\ \A j \in 1..(i - 1) : query[j].name # name].value

----------------------------------------------------------------------------
(* getURL *)

\* `${options.quality}`
QualityToString(q) == IF q.t = "number" THEN NumToString(q.n) ELSE q.s

\* options.quality is truthy
TruthyQuality(o) ==
    /\ Has(o, "quality")
    /\ IF o.quality.t = "number" THEN o.quality.n # 0 ELSE o.quality.s # <<>>

Pair(n, v) == [name |-> n, value |-> v]

\* lines 119-136: the pairs appended to the query
QueryOf(o) ==
    <<Pair(<<"h", "r", "e", "f">>,
           IF o.src.t = "string" THEN o.src.s ELSE o.src.o.src)>>
    \o (IF TruthyNum(o, "width")
        THEN <<Pair(<<"w">>, NumToString(o.width))>> ELSE <<>>)
    \o (IF TruthyNum(o, "height")
        THEN <<Pair(<<"h">>, NumToString(o.height))>> ELSE <<>>)
    \o (IF TruthyQuality(o)
        THEN <<Pair(<<"q">>, QualityToString(o.quality))>> ELSE <<>>)
    \o (IF TruthyStr(o, "format")
        THEN <<Pair(<<"f">>, o.format)>> ELSE <<>>)

\* getURL(options, config): the query string of the URL it returns, and the
\* options object as the call left it
getURL(o) == [ret |-> Serialize(QueryOf(o)), options |-> o]

----------------------------------------------------------------------------
(* parseURL *)

Undefined == [defined |-> FALSE]

\* the property k of the returned object, from query parameter name: absent
\* when the parameter is missing (null)
ParamStr(query, name) ==
    IF QueryHas(query, name) THEN <<QueryGet(query, name)>> ELSE <<>>

\* width ? Number.parseInt(width, 10) : undefined
ParamInt(query, name) ==
    IF QueryHas(query, name) /\ QueryGet(query, name) # <<>>
    THEN <<ParseInt(QueryGet(query, name))>> ELSE <<>>

\* the object with the properties whose value is present
Props(ps) ==
    [k \in {p \in DOMAIN ps : ps[p] # <<>>} |-> ps[k][1]]

\* parseURL({ searchParams }, config), of the query string q
parseURL(q) ==
    LET query == ParseQuery(q)
        href == <<"h", "r", "e", "f">>
    IN  IF ~QueryHas(query, href) \/ QueryGet(query, href) = <<>>
        THEN Undefined
        ELSE [defined |-> TRUE,
              value |->
                Props([src |-> <<[t |-> "string", s |-> QueryGet(query, href)]>>,
                       width |-> ParamInt(query, <<"w">>),
                       height |-> ParamInt(query, <<"h">>),
                       quality |->
                          IF QueryHas(query, <<"q">>)
                          THEN <<[t |-> "string", s |-> QueryGet(query, <<"q">>)]>>
                          ELSE <<>>,
                       format |-> ParamStr(query, <<"f">>),
                       lossless |->
                          <<QueryHas(query, <<"l", "o", "s", "s", "l", "e", "s", "s">>)
                            /\ QueryGet(query, <<"l", "o", "s", "s", "l", "e", "s", "s">>)
                                 = <<"1">> >>])]

----------------------------------------------------------------------------
(* getTargetDimensions *)

\* { width, height } of an object, each absent when undefined
Dimensions(o) == [k \in {"width", "height"} \cap DOMAIN o |-> o[k]]

\* getTargetDimensions with the aspect ratio taken as height / width
getTargetDimensionsInverted(o) ==
    IF isImageMetadata(o.src) THEN
        LET aspectRatio == RatDiv(Ratio(o.src.o.height), Ratio(o.src.o.width)) IN
        IF TruthyNum(o, "height") /\ ~TruthyNum(o, "width")
        THEN Set(Dimensions(o), "width",
                 RatRound(RatMul(Ratio(o.height), aspectRatio)))
        ELSE IF TruthyNum(o, "width") /\ ~TruthyNum(o, "height")
        THEN Set(Dimensions(o), "height",
                 RatRound(RatDiv(Ratio(o.width), aspectRatio)))
        ELSE IF ~TruthyNum(o, "width") /\ ~TruthyNum(o, "height")
        THEN Set(Set(Dimensions(o), "width", o.src.o.width),
                 "height", o.src.o.height)
        ELSE Dimensions(o)
    ELSE Dimensions(o)

getTargetDimensions(o) ==
    IF isImageMetadata(o.src) THEN
        LET aspectRatio == RatDiv(Ratio(o.src.o.width), Ratio(o.src.o.height)) IN
        IF TruthyNum(o, "height") /\ ~TruthyNum(o, "width")
        THEN Set(Dimensions(o), "width",
                 RatRound(RatMul(Ratio(o.height), aspectRatio)))
        ELSE IF TruthyNum(o, "width") /\ ~TruthyNum(o, "height")
        THEN Set(Dimensions(o), "height",
                 RatRound(RatDiv(Ratio(o.width), aspectRatio)))
        ELSE IF ~TruthyNum(o, "width") /\ ~TruthyNum(o, "height")
        THEN Set(Set(Dimensions(o), "width", o.src.o.width),
                 "height", o.src.o.height)
        ELSE Dimensions(o)
    ELSE Dimensions(o)

----------------------------------------------------------------------------
(* getHTMLAttributes *)

\* the properties that the destructuring of lines 166-178 takes out
Destructured ==
    {"src", "width", "height", "format", "formats", "quality", "densities",
     "widths", "loading", "decoding"}

\* getHTMLAttributes(options, config): the attributes it returns, and the
\* options object as the call left it
getHTMLAttributes(o) ==
    LET loading == IF Has(o, "loading") THEN o.loading ELSE "lazy"
        decoding == IF Has(o, "decoding") THEN o.decoding ELSE "async"
    IN  [ret |-> Set(Set(getTargetDimensions(o) @@ Omit(o, Destructured),
                         "loading", loading), "decoding", decoding),
         options |-> o]

----------------------------------------------------------------------------
(* getSrcSet *)

\* the UTF-16 code unit of a character of a number's string
CodeUnit(c) == IF c = "." THEN 46 ELSE 48 + DigitVal(c)

\* a < b in the order of the default comparator of Array.prototype.sort,
\* which compares the elements' strings by code units
RECURSIVE StringLess(_, _)
StringLess(a, b) ==
    IF b = <<>> THEN FALSE
    ELSE IF a = <<>> THEN TRUE
    ELSE IF Head(a) # Head(b) THEN CodeUnit(Head(a)) < CodeUnit(Head(b))
    ELSE StringLess(Tail(a), Tail(b))

\* x < y for the comparator of the sort of line 199, which is given none
DefaultLess(x, y) == StringLess(NumToString(x), NumToString(y))

\* x put in its place in the sorted list, after the elements not above it
RECURSIVE Insert(_, _)
Insert(x, sorted) ==
    IF sorted = <<>> THEN <<x>>
    ELSE IF DefaultLess(x, Head(sorted)) THEN <<x>> \o sorted
    ELSE <<Head(sorted)>> \o Insert(x, Tail(sorted))

\* Array.prototype.sort() of a list of numbers
RECURSIVE Sort(_)
Sort(list) ==
    IF list = <<>> THEN <<>>
    ELSE Insert(list[Len(list)], Sort(SubSeq(list, 1, Len(list) - 1)))

\* typeof density === 'number' ? density : Number.parseFloat(density)
DensityValue(density) ==
    IF density.t = "number" THEN density.n ELSE ParseFloat(density.s)

\* line 199
DensityValues(densities) ==
    Sort([i \in 1..Len(densities) |-> DensityValue(densities[i])])

\* Math.min(x, maxWidth): maxWidth is Infinity for a string src
CapWidth(x, o) ==
    IF o.src.t = "string" THEN x ELSE MathMin(x, o.src.o.width)

\* lines 194-215: allWidths
AllWidths(o) ==
    IF Has(o, "densities") THEN
        LET target == getTargetDimensions(o) IN
        IF Has(target, "width") THEN
            LET densityValues == DensityValues(o.densities) IN
            [i \in 1..Len(densityValues) |->
                [maxTargetWidth |->
                    CapWidth(RatRound(RatMul(Ratio(target.width),
                                             Ratio(densityValues[i]))), o),
                 descriptor |-> NumToString(densityValues[i]) \o <<"x">>]]
        ELSE <<>>
    ELSE IF Has(o, "widths") THEN
        [i \in 1..Len(o.widths) |->
            [maxTargetWidth |-> CapWidth(o.widths[i], o),
             descriptor |-> NumToString(o.widths[i]) \o <<"w">>]]
    ELSE <<>>

\* lines 183-187
MimeType(o) ==
    LET format == IF Has(o, "format") THEN o.format ELSE avif IN
    IF format = svg THEN <<"i", "m", "a", "g", "e", "/">> \o svg \o <<"+", "x", "m", "l">>
    ELSE <<"i", "m", "a", "g", "e", "/">> \o format

\* lines 224-234: the transform of one candidate
SrcSetTransform(o, maxTargetWidth) ==
    LET transformWithoutDimensions == Omit(o, {"width", "height"})
        imageWidth == IF o.src.t = "string"
                      THEN (IF Has(o, "width") THEN <<o.width>> ELSE <<>>)
                      ELSE <<o.src.o.width>>
    IN  IF <<maxTargetWidth>> # imageWidth
        THEN Set(transformWithoutDimensions, "width", maxTargetWidth)
        ELSE IF TruthyNum(o, "width") /\ TruthyNum(o, "height")
        THEN Set(Set(transformWithoutDimensions, "width", o.width),
                 "height", o.height)
        ELSE transformWithoutDimensions

\* getSrcSet sorting options.densities itself, not a copy
getSrcSetSortingInPlace(o) ==
    LET allWidths == AllWidths(o) IN
    [ret |-> [i \in 1..Len(allWidths) |->
                [transform |-> SrcSetTransform(o, allWidths[i].maxTargetWidth),
                 descriptor |-> allWidths[i].descriptor,
                 attributes |-> [type |-> MimeType(o)]]],
     options |->
        IF Has(o, "densities")
        THEN Set(o, "densities",
                 [i \in 1..Len(o.densities) |->
                    [t |-> "number", n |-> DensityValues(o.densities)[i]]])
        ELSE o]

\* getSrcSet(options, config): the candidates it returns, and the options
\* object as the call left it
getSrcSet(o) ==
    LET allWidths == AllWidths(o) IN
    [ret |-> [i \in 1..Len(allWidths) |->
                [transform |-> SrcSetTransform(o, allWidths[i].maxTargetWidth),
                 descriptor |-> allWidths[i].descriptor,
                 attributes |-> [type |-> MimeType(o)]]],
     options |-> o]

----------------------------------------------------------------------------
(* transform *)

\* own properties of qualityTable
qualityTable ==
    [k \in {<<"l", "o", "w">>, <<"m", "i", "d">>, <<"h", "i", "g", "h">>,
            <<"m", "a", "x">>} |->
        CASE k = <<"l", "o", "w">> -> Num(50)
          [] k = <<"m", "i", "d">> -> Num(70)
          [] k = <<"h", "i", "g", "h">> -> Num(80)
          [] k = <<"m", "a", "x">> -> Num(100)]

\* properties that qualityTable, an object literal, inherits from
\* Object.prototype: looking one up gives a function, not undefined
Inherited ==
    {<<"c", "o", "n", "s", "t", "r", "u", "c", "t", "o", "r">>,
     <<"v", "a", "l", "u", "e", "O", "f">>}

\* line 296: the quality, absent when undefined
Quality(t) ==
    IF Has(t, "quality") /\ t.quality.t = "number"
    THEN <<[t |-> "number", n |-> t.quality.n]>>
    ELSE LET k == IF Has(t, "quality") THEN t.quality.s ELSE <<>> IN
         IF k \in DOMAIN qualityTable
         THEN <<[t |-> "number", n |-> qualityTable[k]]>>
         ELSE IF k \in Inherited THEN <<[t |-> "function"]>>
         ELSE <<>>

\* options.quality === 100
IsLossless(opts) ==
    Has(opts, "quality") /\ opts.quality.t = "number" /\ opts.quality.n = Num(100)

\* lines 293-337: the options given to toFormat
EncoderOptions(t) ==
    LET opts == Props([quality |-> Quality(t)]) IN
    IF t.format = avif
    THEN Set(Set(opts, "bitdepth", Num(8)), "lossless", IsLossless(opts))
    ELSE IF t.format = webp THEN Set(opts, "lossless", IsLossless(opts))
    ELSE IF t.format = png THEN opts
    ELSE IF t.format = jpeg THEN Set(opts, "mozjpeg", TRUE)
    ELSE opts

\* lines 277-286: the parameters given to resize, none when it is not called
ResizeParams(t) ==
    IF Has(t, "width") \/ Has(t, "height")
    THEN <<[k \in {"width", "height"} \cap DOMAIN t |-> MathRound(t[k])]>>
    ELSE <<>>

\* transform(inputBuffer, transform, config): the library that receives the
\* input buffer, of format input, and the parameters it is called with
transform(input, t) ==
    IF Has(t, "format") /\ t.format = svg
    THEN [lib |-> "svgo", input |-> input, resize |-> <<>>, toFormat |-> <<>>]
    ELSE [lib |-> "sharp", input |-> input, resize |-> ResizeParams(t),
          toFormat |-> IF TruthyStr(t, "format")
                       THEN <<[format |-> t.format, options |-> EncoderOptions(t)]>>
                       ELSE <<>>]

----------------------------------------------------------------------------
(* The requests of the model: an options object as a caller builds it, the *)
(* configuration, and the image file that src designates                   *)

\* an optional value: none, or one of S
Maybe(S) == {<<>>} \cup {<<v>> : v \in S}

StringSrc(s) == [t |-> "string", s |-> s]

ImageMetadata(path, W, H, f) ==
    [t |-> "object",
     o |-> [src |-> path, width |-> Num(W), height |-> Num(H), format |-> f]]

Request(o, c, img, inf) == [options |-> o, config |-> c, image |-> img, info |-> inf]

\* the configuration that the integration provides
FullConfig ==
    [publicDir |-> <<"p", "u", "b", "/">>, assets |-> <<"a">>,
     outDir |-> <<"o", "u", "t", "/">>]

Configs ==
    {FullConfig, Set(FullConfig, "defaultFormat", webp),
     Omit(FullConfig, {"publicDir"}), Omit(FullConfig, {"assets"}),
     Omit(FullConfig, {"outDir"}), Set(FullConfig, "outDir", <<>>)}

NotFound == [found |-> FALSE]

Found(W, H) == [found |-> TRUE, width |-> Num(W), height |-> Num(H)]

\* all strings of at most n of these characters
RECURSIVE Strings(_)
Strings(n) ==
    IF n = 0 THEN {<<>>}
    ELSE LET shorter == Strings(n - 1) IN
         shorter \cup {<<c>> \o s : c \in {"/", "a", ":", "@"},
                                   s \in {x \in shorter : Len(x) = n - 1}}

\* src strings with characters that a query string escapes
EscapedStrings ==
    {<<"/", "a">>, <<"/", "a", "/", "b", ".", "p", "n", "g">>,
     <<"/", "a", " ", "b">>, <<"/", "a", "&", "w", "=", "9">>,
     <<"/", "+", "%", "2", "F">>, <<"/", "?", "#", "=">>,
     <<"h", ":", "/", "/", "a", "@", "b">>, <<"/", "/", "a", "_", "*", "-">>}

\* every src string, with and without dimensions, found or not
StringRequests ==
    {Request(Props([src |-> <<StringSrc(s)>>, width |-> d, height |-> d]),
             FullConfig, png, inf) :
        s \in Strings(MaxLen), d \in Maybe({Num(2)}), inf \in {NotFound, Found(2, 3)}}

Lists ==
    {[k \in {} |-> <<>>],
     [densities |-> <<[t |-> "number", n |-> Num(2)]>>],
     [widths |-> <<Num(2)>>],
     [densities |-> <<[t |-> "number", n |-> Num(2)]>>, widths |-> <<Num(2)>>],
     [densities |-> <<>>, widths |-> <<>>]}

\* every kind of src under every configuration
KindRequests ==
    {Request(l @@ Props([src |-> r.src, format |-> f,
                         width |-> <<Num(2)>>, height |-> <<Num(2)>>]),
             c, r.image, Found(2, 3)) :
        l \in Lists, c \in Configs, f \in Maybe({svg, jpg, webp, <<>>}),
        r \in {[src |-> <<>>, image |-> png],
               [src |-> <<[t |-> "number", n |-> 0]>>, image |-> png],
               [src |-> <<[t |-> "number", n |-> Num(5)]>>, image |-> png],
               [src |-> <<[t |-> "object", o |-> [src |-> <<"/", "b">>]]>>,
                image |-> png],
               [src |-> <<ImageMetadata(<<"/", "b">>, 4, 2, png)>>, image |-> png],
               [src |-> <<ImageMetadata(<<"/", "b">>, 4, 2, svg)>>, image |-> svg],
               [src |-> <<StringSrc(<<"/", "b">>)>>, image |-> png],
               [src |-> <<StringSrc(<<"/", "b">>)>>, image |-> svg]}}

\* string sources with every combination of given dimensions, whole or not
InferenceRequests ==
    {Request(l @@ Props([src |-> <<StringSrc(s)>>, width |-> w, height |-> h]),
             FullConfig, png, inf) :
        s \in {<<"/", "b">>, <<"/", "a", "/", "b">>, <<"/", "/", "b">>,
               <<"h", ":", "/", "/", "b">>},
        w \in Maybe(0..Num(MaxDim)), h \in Maybe(0..3),
        inf \in {NotFound, Found(MaxDim, 1)},
        l \in {[k \in {} |-> <<>>], [densities |-> <<>>, widths |-> <<>>]}}

\* imported images of every size with every combination of given dimensions
DimensionRequests ==
    {Request(a @@ Props([src |-> <<ImageMetadata(<<"/", "b">>, W, H, png)>>,
                         width |-> w, height |-> h]),
             FullConfig, png, NotFound) :
        W \in 1..MaxDim, H \in 1..MaxDim,
        w \in Maybe({Num(i) : i \in 0..MaxDim}),
        h \in Maybe({Num(i) : i \in 0..MaxDim}),
        a \in {[k \in {} |-> <<>>],
               [alt |-> "text", loading |-> "eager", decoding |-> "sync",
                formats |-> <<webp>>]}}

DensityItems ==
    {[t |-> "number", n |-> Num(1)], [t |-> "number", n |-> 3],
     [t |-> "number", n |-> Num(2)], [t |-> "number", n |-> Num(10)],
     [t |-> "string", s |-> <<"1", "0">>]}

\* all lists of at most n density items
RECURSIVE DensityLists(_)
DensityLists(n) ==
    IF n = 0 THEN {<<>>}
    ELSE LET shorter == DensityLists(n - 1) IN
         shorter \cup {<<d>> \o l : d \in DensityItems,
                                   l \in {x \in shorter : Len(x) = n - 1}}

\* every densities list, and some widths lists
SrcSetRequests ==
    {Request(l @@ r, FullConfig, png, NotFound) :
        l \in {[densities |-> d] : d \in DensityLists(MaxDensities)}
              \cup {[widths |-> <<Num(4), Num(1), Num(2)>>], [widths |-> <<>>]},
        r \in {[src |-> StringSrc(<<"/", "b">>), width |-> Num(2), height |-> Num(2)],
               [src |-> ImageMetadata(<<"/", "b">>, 4, 2, png)],
               [src |-> ImageMetadata(<<"/", "b">>, 4, 2, png), width |-> Num(3)]}}

\* sources and dimensions of every shape in a URL
URLRequests ==
    {Request(Props([src |-> <<r>>, width |-> w, height |-> h, format |-> f,
                    quality |-> q]),
             FullConfig, png, Found(12, 5)) :
        r \in {StringSrc(s) : s \in EscapedStrings}
              \cup {ImageMetadata(<<"/", "a", "/", "b", "?", "c">>, 4, 2, png)},
        w \in Maybe({Num(3), Num(10), Num(120)}),
        h \in Maybe({Num(7), Num(10), Num(105)}),
        f \in Maybe({webp, jpg}),
        q \in Maybe({[t |-> "number", n |-> Num(80)]})}

Qualities ==
    {[t |-> "number", n |-> Num(n)] : n \in {0, 1, 50, 80, 100}}
    \cup {[t |-> "string", s |-> s] :
            s \in DOMAIN qualityTable \cup Inherited
                  \cup {<<>>, <<"x">>, <<"1", "0", "0">>}}

\* every quality with every output format
QualityRequests ==
    {Request(Props([src |-> <<r>>, width |-> <<Num(2)>>, height |-> <<Num(2)>>,
                    format |-> f, quality |-> q]),
             FullConfig, png, NotFound) :
        r \in {StringSrc(<<"/", "b">>), ImageMetadata(<<"/", "b">>, 4, 2, png)},
        f \in Maybe({avif, webp, png, jpg, jpeg}),
        q \in Maybe(Qualities)}

Requests ==
    StringRequests \cup KindRequests \cup InferenceRequests \cup DimensionRequests
    \cup SrcSetRequests \cup URLRequests \cup QualityRequests

----------------------------------------------------------------------------
(* The pipeline of a request *)

Init ==
    \E r \in Requests :
        /\ config = r.config
        /\ options = r.options
        /\ given = r.options
        /\ image = r.image
        /\ info = r.info
        /\ pc = "validateOptions"
        /\ validated = [threw |-> FALSE, error |-> "", options |-> <<>>,
                        probed |-> <<>>]
        /\ url = <<>>
        /\ parsed = Undefined
        /\ attributes = <<>>
        /\ srcSet = <<>>
        /\ output = [lib |-> "none"]

ValidateOptions ==
    /\ pc = "validateOptions"
    /\ LET r == validateOptions(options, config, info) IN
        /\ validated' = r
        /\ options' = r.options
        /\ pc' = IF r.threw THEN "error" ELSE "getSrcSet"
    /\ UNCHANGED <<config, given, image, info, url, parsed, attributes, srcSet,
                   output>>

GetSrcSet ==
    /\ pc = "getSrcSet"
    /\ LET r == getSrcSet(options) IN
        /\ srcSet' = r.ret
        /\ options' = r.options
    /\ pc' = "getURL"
    /\ UNCHANGED <<config, given, image, info, validated, url, parsed, attributes,
                   output>>

GetURL ==
    /\ pc = "getURL"
    /\ LET r == getURL(options) IN
        /\ url' = r.ret
        /\ options' = r.options
    /\ pc' = "getHTMLAttributes"
    /\ UNCHANGED <<config, given, image, info, validated, parsed, attributes,
                   srcSet, output>>

GetHTMLAttributes ==
    /\ pc = "getHTMLAttributes"
    /\ LET r == getHTMLAttributes(options) IN
        /\ attributes' = r.ret
        /\ options' = r.options
    /\ pc' = "parseURL"
    /\ UNCHANGED <<config, given, image, info, validated, url, parsed, srcSet,
                   output>>

ParseURL ==
    /\ pc = "parseURL"
    /\ parsed' = parseURL(url)
    /\ pc' = "transform"
    /\ UNCHANGED <<config, options, given, image, info, validated, url, attributes,
                   srcSet, output>>

\* the transform of a build: the validated options, src replaced by its path
BuildTransform(o) ==
    Set(o, "src", StringSrc(IF o.src.t = "string" THEN o.src.s ELSE o.src.o.src))

\* transform is called by the image endpoint with what parseURL returned,
\* and by a build with the validated options
Transform ==
    /\ pc = "transform"
    /\ \E via \in {"endpoint", "build"} :
        /\ via = "endpoint" => parsed.defined
        /\ output' = Set(transform(image,
                                   IF via = "endpoint" THEN parsed.value
                                   ELSE BuildTransform(options)),
                         "via", via)
    /\ pc' = "done"
    /\ UNCHANGED <<config, options, given, image, info, validated, url, parsed,
                   attributes, srcSet>>

Next ==
    \/ ValidateOptions
    \/ GetSrcSet
    \/ GetURL
    \/ GetHTMLAttributes
    \/ ParseURL
    \/ Transform

Spec == Init /\ [][Next]_vars

----------------------------------------------------------------------------
(* Properties *)

\* the path of the source image of an options object
SourcePath(o) == IF o.src.t = "string" THEN o.src.s ELSE o.src.o.src

\* property k is absent, or a positive integer
AbsentOrPositiveInteger(o, k) == Has(o, k) => (IsInteger(o[k]) /\ o[k] > 0)

\* objects a and b agree on property k: absent in both, or equal
SameProperty(a, b, k) == (Has(a, k) <=> Has(b, k)) /\ (Has(a, k) => a[k] = b[k])

\* validateOptions has returned normally
Validated == pc \notin {"validateOptions", "error"}

\* parseURL has returned
Parsed == pc \in {"transform", "done"}

\* C1: URL round trip. For the options that validateOptions returned, with
\* width and height positive integers or absent, parseURL of the query that
\* getURL built returns an object (never undefined) whose src is the source
\* path, whose width and height are those of the options (absent when they
\* are absent) and whose format is that of the options.
C1_URLRoundTrip ==
    (/\ Parsed
     /\ AbsentOrPositiveInteger(options, "width")
     /\ AbsentOrPositiveInteger(options, "height"))
    => /\ parsed.defined
       /\ parsed.value.src = StringSrc(SourcePath(options))
       /\ SameProperty(parsed.value, options, "width")
       /\ SameProperty(parsed.value, options, "height")
       /\ SameProperty(parsed.value, options, "format")
       /\ Has(parsed.value, "format")

\* a URL was parsed whose src holds characters that the query escapes, with a
\* width of several digits and no height
C1_Witness ==
    /\ Parsed
    /\ parsed.defined
    /\ \E i \in 1..Len(SourcePath(options)) : SourcePath(options)[i] \in {"&", "+", "%", "?"}
    /\ Has(options, "width") /\ options.width >= Num(100)
    /\ Has(parsed.value, "width") /\ parsed.value.width = options.width
    /\ ~Has(options, "height") /\ ~Has(parsed.value, "height")

\* the number that a quality of the caller stands for: itself, or the value
\* that the documentation gives its name
NamedQuality(q) ==
    IF q.t = "number" THEN q.n
    ELSE CASE q.s = <<"l", "o", "w">> -> Num(50)
           [] q.s = <<"m", "i", "d">> -> Num(70)
           [] q.s = <<"h", "i", "g", "h">> -> Num(80)
           [] q.s = <<"m", "a", "x">> -> Num(100)

\* the quality is a number in 1..100 or one of the four names
KnownQuality(q) ==
    IF q.t = "number" THEN IsInteger(q.n) /\ q.n >= Num(1) /\ q.n <= Num(100)
    ELSE q.s \in {<<"l", "o", "w">>, <<"m", "i", "d">>, <<"h", "i", "g", "h">>,
                  <<"m", "a", "x">>}

\* C2: quality is carried end to end. When the options carry a quality that
\* is a number in 1..100 or one of the names low, mid, high, max, and the
\* output is not svg, then after getURL, parseURL and transform the encoder
\* options given to the raster library hold that number, respectively the
\* table value of the name.
C2_QualityCarried ==
    (/\ pc = "done"
     /\ output.via = "endpoint"
     /\ output.lib = "sharp"
     /\ Has(options, "quality")
     /\ KnownQuality(options.quality))
    => LET opts == output.toFormat[1].options IN
       /\ Has(opts, "quality")
       /\ opts.quality = [t |-> "number", n |-> NamedQuality(options.quality)]

\* the densities of the descriptors of the candidates
CandidateDensities == [i \in 1..Len(srcSet) |-> ParseFloat(srcSet[i].descriptor)]

\* C3: density values are sorted. With a densities list and a defined target
\* width, getSrcSet returns one candidate per density, in ascending numeric
\* order of density.
C3_DensitiesSorted ==
    (/\ pc \in {"getURL", "getHTMLAttributes", "parseURL", "transform", "done"}
     /\ Has(options, "densities")
     /\ Has(getTargetDimensions(options), "width"))
    => /\ Len(srcSet) = Len(options.densities)
       /\ \A i \in 1..Len(srcSet) : \A j \in i..Len(srcSet) :
             CandidateDensities[i] <= CandidateDensities[j]

\* C4: SVG output implies SVG input. When validateOptions returns with format
\* svg the source image is an SVG, and transform gives the vector optimizer
\* no input that is not an SVG.
C4_SvgOutputImpliesSvgInput ==
    /\ (Validated /\ options.format = svg) => image = svg
    /\ (pc = "done" /\ output.lib = "svgo") => output.input = svg

\* the cases in which validateOptions is to end with an error, read off the
\* options as given, the configuration and the answer of the probe
SrcIsString == Has(given, "src") /\ given.src.t = "string"

SrcIsImageMetadata ==
    /\ Has(given, "src")
    /\ given.src.t = "object"
    /\ \A k \in {"src", "width", "height", "format"} : k \in DOMAIN given.src.o

ConfigIncomplete ==
    \E k \in {"publicDir", "assets", "outDir"} : ~Has(config, k) \/ Len(config[k]) = 0

SrcMissing ==
    \/ ~Has(given, "src")
    \/ SrcIsString /\ Len(given.src.s) = 0
    \/ given.src.t = "number" /\ given.src.n = 0

\* "//..." or "scheme://..."
AbsoluteOrProtocolRelative(s) ==
    \E i \in 1..(Len(s) - 1) :
        /\ s[i] = "/" /\ s[i + 1] = "/"
        /\ \/ i = 1
           \/ i >= 3 /\ s[i - 1] = ":" /\ \A j \in 1..(i - 2) : IsWord(s[j])

\* "/..." other than "/@..." and "//..."
PublicPath(s) ==
    Len(s) >= 1 /\ s[1] = "/" /\ (Len(s) >= 2 => s[2] # "@" /\ s[2] # "/")

\* under "/<assets>/"
UnderAssets(s) ==
    LET n == Len(config.assets) IN
    /\ Len(s) >= n + 2
    /\ s[1] = "/" /\ s[n + 2] = "/"
    /\ \A i \in 1..n : s[i + 1] = config.assets[i]

SrcNotImported ==
    /\ SrcIsString
    /\ ~AbsoluteOrProtocolRelative(given.src.s)
    /\ ~PublicPath(given.src.s)
    /\ ~UnderAssets(given.src.s)

SvgFromRaster ==
    /\ SrcIsImageMetadata
    /\ given.src.o.format # svg
    /\ Has(given, "format") /\ given.format = svg

DensitiesAndWidths == Has(given, "densities") /\ Has(given, "widths")

DimensionMissing == ~TruthyNum(given, "width") \/ ~TruthyNum(given, "height")

InferenceFailed == SrcIsString /\ DimensionMissing /\ ~info.found

C6_OptionsNeverChange == options = given

\* C6 amended: getSrcSet, getURL, getHTMLAttributes and parseURL leave the
\* options object unchanged; validateOptions changes the object it is given
\* in place, in its width, height and format only, whether it returns or
\* throws, and what it returns is that object.
C6_OnlyValidateOptionsChangesOptions ==
    [][/\ pc # "validateOptions" => options' = options
       /\ Omit(options', {"width", "height", "format"})
            = Omit(options, {"width", "height", "format"})
       /\ validated'.options = options']_vars

\* the whole pipeline has run on options that validateOptions changed and
\* whose densities are not in sorted order
C6_Witness ==
    /\ pc = "done"
    /\ options # given
    /\ Has(options, "densities")
    /\ Len(options.densities) >= 2
    /\ DensityValues(options.densities)
         # [i \in 1..Len(options.densities) |-> DensityValue(options.densities[i])]

\* the location that a string src is to be probed at
ProbedAt(p, s) ==
    IF AbsoluteOrProtocolRelative(s)
    THEN /\ p.base = "none"
         /\ p.href = IF s[1] = "/" THEN <<"h", "t", "t", "p", "s", ":", "/", "/">> \o s
                     ELSE s
    ELSE /\ p.href = s
         /\ p.base = IF UnderAssets(s) THEN config.outDir ELSE config.publicDir

RoundedQuotient(a, b) == (2 * a + b) \div (2 * b)

\* C8: target dimensions. For an ImageMetadata src of W x H pixels,
\* getHTMLAttributes returns width and height both defined: (W, H) when
\* neither is given, (w, round(w * H / W)) when only width w is given,
\* (round(h * W / H), h) when only height h is given and (w, h) when both
\* are; it returns loading, "lazy" unless given, and decoding, "async"
\* unless given, keeps the other attributes and returns none of src, format,
\* formats, quality, densities, widths.
C8_TargetDimensions ==
    (pc \in {"parseURL", "transform", "done"} /\ SrcIsImageMetadata)
    => LET W == options.src.o.width \div 2
           H == options.src.o.height \div 2
           w == IF Has(options, "width") THEN options.width \div 2 ELSE 0
           h == IF Has(options, "height") THEN options.height \div 2 ELSE 0
       IN  /\ Has(attributes, "width") /\ Has(attributes, "height")
           /\ <<attributes.width, attributes.height>> =
                 IF w = 0 /\ h = 0 THEN <<Num(W), Num(H)>>
                 ELSE IF h = 0 THEN <<Num(w), Num(RoundedQuotient(w * H, W))>>
                 ELSE IF w = 0 THEN <<Num(RoundedQuotient(h * W, H)), Num(h)>>
                 ELSE <<Num(w), Num(h)>>
           /\ attributes.loading = IF Has(given, "loading") THEN given.loading ELSE "lazy"
           /\ attributes.decoding =
                 IF Has(given, "decoding") THEN given.decoding ELSE "async"
           /\ DOMAIN attributes \cap
                 {"src", "format", "formats", "quality", "densities", "widths"} = {}
           /\ Has(given, "alt") => Has(attributes, "alt") /\ attributes.alt = given.alt

\* a height was computed from a given width for an image that is not
\* square, and the other attributes were kept
C8_Witness ==
    /\ pc = "done"
    /\ SrcIsImageMetadata
    /\ TruthyNum(options, "width") /\ ~Has(options, "height")
    /\ options.src.o.width = Num(3) /\ options.src.o.height = Num(2)
    /\ attributes.width = Num(4) /\ attributes.height = Num(3)
    /\ Has(attributes, "alt")

\* the transform that the last call of transform was given
Transformed == IF output.via = "endpoint" THEN parsed.value ELSE BuildTransform(options)

\* C9: lossless selection in transform. For avif and webp the encoder option
\* lossless is true exactly when the quality is the number 100 or the name
\* max; for png and jpeg no lossless option is set; and a quality option is
\* passed only when the quality is a number or one of the names low, mid,
\* high, max, and it is then that number.
C9_LosslessSelection ==
    (pc = "done" /\ output.lib = "sharp" /\ output.toFormat # <<>>)
    => LET t == Transformed
           opts == output.toFormat[1].options
           resolves == Has(t, "quality")
                       /\ (t.quality.t = "number"
                           \/ t.quality.s \in {<<"l", "o", "w">>, <<"m", "i", "d">>,
                                              <<"h", "i", "g", "h">>, <<"m", "a", "x">>})
       IN  /\ t.format \in {avif, webp} =>
                 /\ Has(opts, "lossless")
                 /\ opts.lossless <=> (resolves /\ NamedQuality(t.quality) = Num(100))
           /\ t.format \in {png, jpeg} => ~Has(opts, "lossless")
           /\ Has(opts, "quality") =>
                 /\ resolves
                 /\ opts.quality = [t |-> "number", n |-> NamedQuality(t.quality)]

====
